---- MODULE Spec2Model ----
(***************************************************************************)
(* Model of the seo_audit crawl-and-analyze pipeline:                      *)
(*   SEOCrawler / URLDiscovery   (seo_audit/crawler.py)                    *)
(*   SEOAuditEngine.run_audit    (seo_audit/audit_engine.py)               *)
(*   PageAnalyzer, RedirectAnalyzer (seo_audit/analyzers.py)               *)
(*   AuditSummary.add_result     (seo_audit/models.py)                     *)
(*   URL helpers                 (seo_audit/utils.py)                      *)
(* The crawl is single threaded: run_audit drives the crawl_urls generator *)
(* as a coroutine, so one program counter `pc` follows both.               *)
(***************************************************************************)
EXTENDS Integers, Sequences, FiniteSets, TLC

\* ---------------------------------------------------------------- bounds
MaxPagesBound == 2     \* config.max_pages ranges over 0..MaxPagesBound
Horizon == 4           \* model time runs from EpochStart to EpochStart+Horizon
MaxReqDur == 1         \* an answered GET of analyze_page takes 1..MaxReqDur ticks
MaxAuxDur == 0         \* every other request takes 0..MaxAuxDur ticks
TicksPerSecond == 2    \* resolution of the model clock
MaxRecords == 3        \* records added in the stand-alone AuditSummary runs
MaxNesting == 3        \* nested sitemap fetches the interpreter's stack allows
MaxHeadings == 3       \* heading elements of an analyzed document
MaxUrls == 4           \* length of the lists handed to deduplicate_urls
MaxChain == 12         \* distinct URLs of the longest redirect chain served
MaxAnalyses == 2       \* analyses started through the HTTP server
MaxLinkCalls == 4      \* add_page_links calls in the InternalLinkAnalyzer runs

\* ------------------------------------------------------- program constants
None == -1             \* Python None for Optional[int] fields
\* the cap one hop further
RedirectCap_Eleven == 10 + 1
RedirectCap == 10      \* analyzers.py:371  len(redirect_chain) < 10

MsPerTick == 1000 \div TicksPerSecond
\* time.time() is seconds since 1970: far more than any crawl delay, so the
\* first _respect_rate_limit (last_request_time = 0) never sleeps.
EpochStart == 2 * TicksPerSecond
MaxTime == EpochStart + Horizon

\* ------------------------------------------------------------------- URLs
\* A URL as urllib.parse.urlparse splits it.
Url(scheme, host, path, frag) ==
    [scheme |-> scheme, host |-> host, path |-> path, frag |-> frag]

EmptyUrl == Url("", "", "", "")              \* ""
BareDomain == Url("", "", "site", "")        \* "site"  (no scheme: all path)
SiteRoot == Url("https", "site", "", "")     \* "https://site"
P(path) == Url("https", "site", path, "")    \* "https://site<path>"
PF(path) == Url("https", "site", path, "f")  \* "https://site<path>#f"
Ext(path) == Url("https", "ext", path, "")   \* "https://ext<path>"

\* utils.normalize_url
normalize_url(url) ==
    IF url = EmptyUrl THEN url
    ELSE LET d == [url EXCEPT !.frag = ""]
         IN  IF d.scheme = ""
             THEN IF d.host = ""
                  THEN Url("https", d.path, "", "")   \* "https://" + "site"
                  ELSE Url("https", "", "//" , "")    \* "https:////host.." has no netloc
             ELSE d

\* utils.is_same_domain
is_same_domain(url1, url2) == url1.host = url2.host

\* utils.is_valid_url
is_valid_url(url) == url.scheme # "" /\ url.host # ""

\* utils.filter_urls_by_domain
filter_urls_by_domain(urls, allowed_domain) ==
    SelectSeq(urls, LAMBDA u : is_same_domain(u, allowed_domain))

RECURSIVE DedupFrom(_, _)
DedupFrom(urls, seen) ==
    IF urls = <<>> THEN <<>>
    ELSE LET n == normalize_url(Head(urls))
         IN  IF n # EmptyUrl /\ n \notin seen
             THEN <<n>> \o DedupFrom(Tail(urls), seen \cup {n})
             ELSE DedupFrom(Tail(urls), seen)

\* utils.deduplicate_urls
deduplicate_urls(urls) == DedupFrom(urls, {})

SeqToSet(s) == {s[i] : i \in DOMAIN s}

\* list(set): any iteration order of the set
Orders(S) ==
    {s \in [1..Cardinality(S) -> S] :
        \A i, j \in 1..Cardinality(S) : i # j => s[i] # s[j]}

Prefix(s, n) == SubSeq(s, 1, IF Len(s) < n THEN Len(s) ELSE n)

\* ----------------------------------------------------------- environment
\* What robots.txt may hold.  loaded = FALSE: get_robots_parser returned None.
NoRobots == [loaded |-> FALSE, disallow |-> {}, delay |-> None]
RobotsChoices ==
    { NoRobots,
      [loaded |-> TRUE, disallow |-> {}, delay |-> 0],
      [loaded |-> TRUE, disallow |-> {"/b"}, delay |-> 1] }

\* <loc> entries the sitemaps of the site may list (all sources together).
SitemapChoices ==
    { {},
      {PF("/a"), P("/b"), Ext("/a")} }

\* hrefs (made absolute by urljoin) a fetched page may carry.
LinkChoices ==
    { <<>>,
      <<P("/a"), PF("/a"), Ext("/a"), P("/b"), P("/c")>> }

\* Location targets of a 3xx answer.
RedirectTargets == {P("/a")}

\* --------------------------------------------------------------- results
NewResult(url) ==
    [url |-> url, status |-> None, response_ms |-> None, issues |-> <<>>,
     canonical |-> EmptyUrl, canonical_ok |-> FALSE, links_internal |-> 0,
     headings_structure |-> <<>>, headings_hierarchy_issues |-> <<>>,
     redirect_chain |-> <<>>,
     failure |-> "none",    \* which except clause built the record
     stage |-> "new"]       \* how far run_audit has got with the record

NoResult == NewResult(EmptyUrl)

RECURSIVE GCD(_, _)
GCD(a, b) == IF b = 0 THEN a ELSE GCD(b, a % b)

\* exact fraction <<numerator, denominator>> in lowest terms
Frac(n, d) == LET g == GCD(n, d) IN IF g = 0 THEN <<0, 1>> ELSE <<n \div g, d \div g>>

EmptySummary ==
    [total_pages |-> 0, pages_with_issues |-> 0, avg_response_time |-> <<0, 1>>,
     total_issues |-> 0, common_issues |-> <<>>, status_codes |-> <<>>]

Bump(f, k) ==
    [x \in DOMAIN f \cup {k} |->
        IF x = k THEN (IF k \in DOMAIN f THEN f[k] ELSE 0) + 1 ELSE f[x]]

RECURSIVE BumpAll(_, _)
BumpAll(f, ks) == IF ks = <<>> THEN f ELSE BumpAll(Bump(f, Head(ks)), Tail(ks))

\* Python truthiness of an Optional[int]
Truthy(x) == x # None /\ x # 0

\* AuditSummary.add_result
add_result(s, result) ==
    LET n == s.total_pages + 1
        avg == s.avg_response_time
    IN  [total_pages |-> n,
         pages_with_issues |->
             s.pages_with_issues + (IF result.issues # <<>> THEN 1 ELSE 0),
         total_issues |-> s.total_issues + Len(result.issues),
         avg_response_time |->
             IF Truthy(result.response_ms)
             THEN Frac(avg[1] * (n - 1) + result.response_ms * avg[2], avg[2] * n)
             ELSE avg,
         status_codes |->
             IF Truthy(result.status) THEN Bump(s.status_codes, result.status)
             ELSE s.status_codes,
         common_issues |-> BumpAll(s.common_issues, result.issues)]

\* ------------------------------------------------------------------ state
VARIABLES
    config,             \* AuditConfig
    pc,                 \* position of the caller / run_audit / crawl_urls
    robots_parser,      \* SEOCrawler.robots_parser
    crawl_delay,        \* SEOCrawler.crawl_delay, in ticks
    discovered_urls,    \* SEOCrawler.discovered_urls
    crawled_urls,       \* SEOCrawler.crawled_urls
    url_queue,          \* SEOCrawler.url_queue
    last_request_time,  \* SEOCrawler.last_request_time
    now,                \* time.time(), in ticks
    url,                \* the URL the generator yielded last
    result,             \* the PageResult being built by the loop body
    redirect_chain,     \* local of analyze_redirects
    redirect_issues,    \* local of analyze_redirects
    results,            \* SEOAuditEngine.results
    summary,            \* SEOAuditEngine.summary
    processed_count,    \* run_audit's processed_count = URLs yielded so far
    yielded,            \* the URLs crawl_urls has yielded, in order (history)
    link_graph,         \* SEOAuditEngine.link_analyzer.link_graph
    reverse_link_graph, \* InternalLinkAnalyzer.reverse_link_graph
    all_urls,           \* InternalLinkAnalyzer.all_urls
    frame,              \* arguments and locals of a function driven on its own
    status_file,        \* simple_server: web_data/analysis_status.json
    threads,            \* simple_server: run_analysis threads still running
    response,           \* simple_server: the last analysis-status response
    returned,           \* the value run_audit returned
    \* observations of the run (not program state)
    page_fetches,       \* GET requests sent to page URLs
    last_req_at,        \* time the last request to the crawled host was sent
    req_gap,            \* time between the last two requests to the host
    release_gap,        \* time between the last two rate-limit releases
    network_used,       \* some outbound request has been issued
    offsite,            \* some request went to a host other than the domain's
    interrupted,        \* a KeyboardInterrupt has been delivered
    abort_kind,         \* exception that reached run_audit's handlers
    abort_from          \* pc at which that exception was raised

vars == <<config, pc, robots_parser, crawl_delay, discovered_urls, crawled_urls,
          url_queue, last_request_time, now, url, result, redirect_chain,
          redirect_issues, results, summary, processed_count, link_graph,
          reverse_link_graph, all_urls, frame, status_file, threads, response,
          yielded, returned, page_fetches,
          last_req_at, req_gap, release_gap, network_used, offsite,
          interrupted, abort_kind, abort_from>>

crawlerVars == <<discovered_urls, crawled_urls, url_queue>>
redirectVars == <<redirect_chain, redirect_issues>>
requestVars == <<now, page_fetches, last_req_at, req_gap, network_used, offsite>>
serverVars == <<status_file, threads, response>>
unitVars == <<reverse_link_graph, all_urls, frame, serverVars>>
abortVars == <<abort_kind, abort_from>>

DomainChoices == {EmptyUrl, BareDomain, SiteRoot}
RateLimits == {-1, 0, 2}

Configs ==
    [domain : DomainChoices, max_pages : 0..MaxPagesBound,
     rate_limit : RateLimits, follow_redirects : BOOLEAN]

\* simple_server.save_analysis_status: the status_data written to the file
\* (serial tells apart analyses that were given the same analysis_id)
StatusData(analysis_id, status, domain, serial) ==
    [analysis_id |-> analysis_id, status |-> status, domain |-> domain,
     serial |-> serial]

\* web_data/analysis_status.json does not exist; it is open for writing and
\* still empty; no status request answered yet
NoFile == StatusData(None, "no file", "", None)
Truncated == StatusData(None, "truncated", "", None)
NoResponse == [asked |-> None, asked_serial |-> None, status |-> StatusData(None, "", "", None)]

\* no function is being driven on its own
NoFrame == [op |-> "none"]

\* State shared by every specification: nothing constructed yet.
Blank ==
    /\ crawl_delay = 0
    /\ discovered_urls = {}
    /\ crawled_urls = {}
    /\ url_queue = <<>>
    /\ last_request_time = 0
    /\ now = EpochStart
    /\ url = EmptyUrl
    /\ result = NoResult
    /\ redirect_chain = <<>>
    /\ redirect_issues = <<>>
    /\ results = <<>>
    /\ summary = EmptySummary
    /\ processed_count = 0
    /\ yielded = <<>>
    /\ status_file = NoFile
    /\ threads = {}
    /\ response = NoResponse
    /\ link_graph = <<>>
    /\ reverse_link_graph = <<>>
    /\ all_urls = {}
    /\ returned = <<>>
    /\ page_fetches = 0
    /\ last_req_at = None
    /\ req_gap = None
    /\ release_gap = None
    /\ network_used = FALSE
    /\ offsite = FALSE
    /\ interrupted = FALSE
    /\ abort_kind = "none"
    /\ abort_from = "none"

Init ==
    /\ config \in Configs
    /\ pc = "init"
    /\ robots_parser = NoRobots
    /\ frame = NoFrame
    /\ Blank

\* ---------------------------------------------------------------- helpers
\* utils.get_crawl_delay (seconds)
get_crawl_delay(rp) ==
    IF ~rp.loaded THEN None
    ELSE IF Truthy(rp.delay) THEN rp.delay ELSE None

\* robots.txt never consulted
is_allowed_by_robots_Always(u, rp) == TRUE

\* utils.is_allowed_by_robots
is_allowed_by_robots(u, rp) ==
    IF ~rp.loaded THEN TRUE ELSE u.path \notin rp.disallow

\* off by one: > where the code has >=
AtBudget_OffByOne(n) == n > config.max_pages

\* the budget test  len(...) >= self.config.max_pages  of get_next_url,
\* discover_more_urls, crawl_urls and run_audit
AtBudget(n) == n >= config.max_pages

\* the discovered_urls test left out
add_url_to_queue_NoSeen(st, u) ==
    IF is_valid_url(u) /\ is_allowed_by_robots(u, robots_parser)
    THEN [disc |-> st.disc \cup {u}, q |-> Append(st.q, u)]
    ELSE st

\* the robots.txt test left out
add_url_to_queue_NoRobots(st, u) ==
    IF u \notin st.disc /\ is_valid_url(u)
    THEN [disc |-> st.disc \cup {u}, q |-> Append(st.q, u)]
    ELSE st

\* SEOCrawler._add_url_to_queue, on the pair (discovered_urls, url_queue)
add_url_to_queue(st, u) ==
    IF u \notin st.disc /\ is_valid_url(u) /\ is_allowed_by_robots(u, robots_parser)
    THEN [disc |-> st.disc \cup {u}, q |-> Append(st.q, u)]
    ELSE st

\* for u in urls: _add_url_to_queue(u); capped = the loop of
\* discover_more_urls, which breaks once discovered_urls is at the budget
RECURSIVE AddAll(_, _, _)
AddAll(st, urls, capped) ==
    IF urls = <<>> THEN st
    ELSE IF capped /\ AtBudget(Cardinality(st.disc)) THEN st
    ELSE AddAll(add_url_to_queue(st, Head(urls)), Tail(urls), capped)

\* URLDiscovery._extract_links_from_html
extract_links_from_html(hrefs) ==
    LET same == SelectSeq(hrefs, LAMBDA h : is_same_domain(h, config.domain))
    IN  deduplicate_urls([i \in DOMAIN same |-> normalize_url(same[i])])

AddIssue(r, issue) == [r EXCEPT !.issues = Append(@, issue)]

\* analyze_page has returned the record
Analyzed(r) == [r EXCEPT !.stage = "analyzed"]

\* the sleep left out
SleepTime_NoSleep(elapsed) == 0

\* SEOCrawler._respect_rate_limit: the argument of time.sleep (0: no sleep)
SleepTime(elapsed) ==
    IF crawl_delay > 0 /\ elapsed < crawl_delay THEN crawl_delay - elapsed ELSE 0

\* An outbound request to `target` sent at `now`, answered d ticks later.
Req(target, pageGet, d) ==
    /\ now + d <= MaxTime
    /\ now' = now + d
    /\ page_fetches' = page_fetches + (IF pageGet THEN 1 ELSE 0)
    /\ req_gap' = IF last_req_at = None THEN None ELSE now - last_req_at
    /\ last_req_at' = now
    /\ network_used' = TRUE
    /\ offsite' = (offsite \/ ~is_same_domain(target, config.domain))

\* ------------------------------------------------------------- exceptions
KeyboardInterrupt == "KeyboardInterrupt"

\* `except Exception` catches every class but KeyboardInterrupt (a BaseException)
IsException(kind) == kind # KeyboardInterrupt

\* only the Timeout clause
AnalyzePageCatches_TimeoutOnly(kind) == kind = "Timeout"

\* analyze_page: except Timeout / except RequestException / except Exception
AnalyzePageCatches(kind) == kind \in {"Timeout", "RequestException", "Exception"}

\* only the `except Exception` clause
RunAuditCatches_NoInterrupt(kind) == IsException(kind)

\* run_audit: except KeyboardInterrupt / except Exception
RunAuditCatches(kind) == kind = KeyboardInterrupt \/ IsException(kind)

\* pcs at which an HTTP request is in flight
PageGetPcs == {"analyze_get", "redirect_first_get", "redirect_hop_get", "discover_get"}
RequestPcs == PageGetPcs \cup {"canonical_head"}

\* pcs inside the try block of run_audit
LoopPcs ==
    {"initialize", "get_next", "rate_limit", "callback", "append", "add_result",
     "mark_crawled"} \cup RequestPcs

\* ----------------------------------------------------------------- caller
\* SEOAuditEngine.__init__ -> SEOCrawler.__init__: robots.txt is fetched and
\* the crawl delay fixed.  urlopen raises ValueError before any network
\* traffic when the robots URL has no scheme.
Construct ==
    /\ pc = "init"
    /\ \E rb \in RobotsChoices :
         LET fetched == config.domain.scheme # ""
             rp == IF fetched THEN rb ELSE NoRobots
             robots_delay == get_crawl_delay(rp)
         IN  /\ robots_parser' = rp
             /\ network_used' = fetched
             /\ crawl_delay' =
                    IF Truthy(robots_delay) THEN robots_delay * TicksPerSecond
                    ELSE IF config.rate_limit > 0
                         THEN TicksPerSecond \div config.rate_limit
                         ELSE 0
    /\ pc' = "constructed"
    /\ UNCHANGED <<config, unitVars, yielded, crawlerVars, last_request_time, now, url, result,
                   redirectVars, results, summary, processed_count, link_graph,
                   returned, page_fetches, last_req_at, req_gap, offsite,
                   release_gap, interrupted, abortVars>>

\* SEOAuditEngine.validate_config
validate_config ==
    /\ config.domain # EmptyUrl
    /\ config.domain.scheme \in {"http", "https"}
    /\ config.max_pages > 0
    /\ config.rate_limit >= 0

\* the callers: engine = SEOAuditEngine(config); if not engine.validate_config(): exit
Validate ==
    /\ pc = "constructed"
    /\ pc' = IF validate_config THEN "validated" ELSE "rejected"
    /\ UNCHANGED <<config, unitVars, yielded, robots_parser, crawl_delay, crawlerVars,
                   last_request_time, url, result, redirectVars, results,
                   summary, processed_count, link_graph, returned, requestVars,
                   release_gap, interrupted, abortVars>>

\* -------------------------------------------------------------- run_audit
\* run_audit up to the first next() on crawl_urls
RunAuditStart ==
    /\ pc = "validated"
    /\ processed_count' = 0
    /\ pc' = "initialize"
    /\ UNCHANGED <<config, unitVars, yielded, robots_parser, crawl_delay, crawlerVars,
                   last_request_time, url, result, redirectVars, results,
                   summary, link_graph, returned, requestVars, release_gap,
                   interrupted, abortVars>>

\* SEOCrawler.initialize_urls (with URLDiscovery.discover_from_sitemap)
InitializeUrls ==
    /\ pc = "initialize"
    /\ \E sm \in SitemapChoices :
         LET found == {normalize_url(u) :
                          u \in {v \in sm : is_same_domain(v, config.domain)}}
         IN  \E sitemap_urls \in Orders(found) :
               LET st0 == [disc |-> discovered_urls, q |-> url_queue]
                   filtered == filter_urls_by_domain(sitemap_urls, config.domain)
                   st == IF sitemap_urls # <<>>
                         THEN AddAll(st0, Prefix(filtered, config.max_pages), FALSE)
                         ELSE AddAll(st0, <<normalize_url(config.domain)>>, FALSE)
               IN  /\ discovered_urls' = st.disc
                   /\ url_queue' = st.q
    /\ network_used' = TRUE
    /\ pc' = "get_next"
    /\ UNCHANGED <<config, unitVars, yielded, robots_parser, crawl_delay, crawled_urls,
                   last_request_time, now, url, result, redirectVars, results,
                   summary, processed_count, link_graph, returned, page_fetches,
                   last_req_at, req_gap, offsite, release_gap, interrupted,
                   abortVars>>

\* the generator asked again instead of the loop being left
LoopExit_Retry == "get_next"

\* crawl_urls: `if not url: break` ends the generator and with it the for loop
LoopExit == "after_loop"

\* SEOCrawler.get_next_url, and the end of the for loop when it returns None
GetNextUrl ==
    /\ pc = "get_next"
    /\ IF url_queue = <<>> \/ AtBudget(Cardinality(crawled_urls))
       THEN /\ pc' = LoopExit
            /\ UNCHANGED <<url, url_queue>>
       ELSE /\ url' = Head(url_queue)
            /\ url_queue' = Tail(url_queue)
            /\ pc' = "rate_limit"
    /\ UNCHANGED <<config, unitVars, yielded, robots_parser, crawl_delay, discovered_urls,
                   crawled_urls, last_request_time, result, redirectVars,
                   results, summary, processed_count, link_graph, returned,
                   requestVars, release_gap, interrupted, abortVars>>

\* SEOCrawler._respect_rate_limit, then `yield url` and processed_count += 1.
\* time.sleep(s) returns after at least s.
RespectRateLimit ==
    /\ pc = "rate_limit"
    /\ LET s == SleepTime(now - last_request_time)
       IN  \E over \in 0..1 :
             /\ s = 0 => over = 0
             /\ now + s + over <= MaxTime
             /\ now' = now + s + over
    /\ last_request_time' = now'
    /\ release_gap' = IF processed_count = 0 THEN None ELSE now' - last_request_time
    /\ processed_count' = processed_count + 1
    /\ yielded' = Append(yielded, url)
    /\ pc' = "callback"
    /\ UNCHANGED <<config, unitVars, robots_parser, crawl_delay, crawlerVars, url, result,
                   redirectVars, results, summary, link_graph, returned,
                   page_fetches, last_req_at, req_gap, network_used, offsite,
                   interrupted, abortVars>>

\* progress_callback(...) or print(...)
Callback ==
    /\ pc = "callback"
    /\ pc' = "analyze_get"
    /\ UNCHANGED <<config, unitVars, yielded, robots_parser, crawl_delay, crawlerVars,
                   last_request_time, url, result, redirectVars, results,
                   summary, processed_count, link_graph, returned, requestVars,
                   release_gap, interrupted, abortVars>>

\* ---------------------------------------------------------- page analysis
\* What the GET of analyze_page may bring back.
PageResponses ==
    { [status |-> 404, html |-> TRUE,  parse_error |-> FALSE, canonical |-> "none", links_internal |-> 0],
      [status |-> 200, html |-> TRUE,  parse_error |-> TRUE,  canonical |-> "none", links_internal |-> 0],
      [status |-> 200, html |-> TRUE,  parse_error |-> FALSE, canonical |-> "none", links_internal |-> 0],
      [status |-> 200, html |-> TRUE,  parse_error |-> FALSE, canonical |-> "self", links_internal |-> 2],
      [status |-> 200, html |-> TRUE,  parse_error |-> FALSE, canonical |-> "other", links_internal |-> 0] }

\* urljoin(url, canonical_href) of _analyze_canonical
CanonicalUrl(kind, u) == IF kind = "self" THEN u ELSE Ext("/a")

\* _analyze_canonical after the HEAD request: the self-reference test
SelfCanonical(r) ==
    IF [r.canonical EXCEPT !.frag = ""] = [r.url EXCEPT !.frag = ""]
    THEN r
    ELSE AddIssue(r, "URL canonique externe")

\* redirect analysis left out
AfterAnalyze_SkipRedirects == "append"

\* where run_audit goes once analyze_page has returned
AfterAnalyze == IF config.follow_redirects THEN "redirect_first_get" ELSE "append"

\* PageAnalyzer.analyze_page up to the canonical HEAD request
AnalyzeGet ==
    /\ pc = "analyze_get"
    /\ \E d \in 1..MaxReqDur, resp \in PageResponses :
         /\ Req(url, TRUE, d)
         /\ LET r0 == [NewResult(url) EXCEPT !.status = resp.status,
                                             !.response_ms = d * MsPerTick]
                r1 == [r0 EXCEPT !.links_internal = resp.links_internal]
            IN  CASE resp.status >= 400 ->
                       /\ result' = Analyzed(AddIssue(r0, "HTTP 404"))
                       /\ pc' = AfterAnalyze
                  [] resp.status < 400 /\ ~resp.html ->
                       /\ result' = Analyzed(AddIssue(r0, "Contenu non-HTML"))
                       /\ pc' = AfterAnalyze
                  [] resp.status < 400 /\ resp.html /\ resp.parse_error ->
                       /\ result' = Analyzed([AddIssue(r0, "Erreur d'analyse")
                                                 EXCEPT !.failure = "Exception"])
                       /\ pc' = AfterAnalyze
                  [] resp.status < 400 /\ resp.html /\ ~resp.parse_error
                        /\ resp.canonical = "none" ->
                       /\ result' = Analyzed(AddIssue(r1, "URL canonique manquante"))
                       /\ pc' = AfterAnalyze
                  [] resp.status < 400 /\ resp.html /\ ~resp.parse_error
                        /\ resp.canonical # "none" ->
                       /\ result' = [r1 EXCEPT !.canonical =
                                                  CanonicalUrl(resp.canonical, url)]
                       /\ pc' = "canonical_head"
    /\ UNCHANGED <<config, unitVars, yielded, robots_parser, crawl_delay, crawlerVars,
                   last_request_time, url, redirectVars, results, summary,
                   processed_count, link_graph, returned, release_gap,
                   interrupted, abortVars>>

\* PageAnalyzer._analyze_canonical: the HEAD request, then the rest of
\* _analyze_html_content
CanonicalHead ==
    /\ pc = "canonical_head"
    /\ \E d \in 0..MaxAuxDur, ok \in BOOLEAN :
         /\ Req(result.canonical, FALSE, d)
         /\ result' = Analyzed(SelfCanonical(
                          IF ok THEN [result EXCEPT !.canonical_ok = TRUE]
                          ELSE AddIssue(result, "L'URL canonique retourne 404")))
    /\ pc' = AfterAnalyze
    /\ UNCHANGED <<config, unitVars, yielded, robots_parser, crawl_delay, crawlerVars,
                   last_request_time, url, redirectVars, results, summary,
                   processed_count, link_graph, returned, release_gap,
                   interrupted, abortVars>>

\* -------------------------------------------------------------- redirects
RedirectCodes == {301, 302, 303, 307, 308}

\* what a GET with allow_redirects=False may bring back (location EmptyUrl:
\* no Location header)
RedirectResponses ==
    { [code |-> 200, location |-> EmptyUrl], [code |-> 301, location |-> EmptyUrl] }
    \cup { [code |-> 302, location |-> t] : t \in RedirectTargets }

\* the loop test left out
InChain_Never(next_url, chain) == FALSE

\* `next_url in redirect_chain`
InChain(next_url, chain) == next_url \in SeqToSet(chain)

\* one evaluation of the while loop of analyze_redirects on a response
RedirectStep(chain, issues, resp) ==
    IF resp.code \in RedirectCodes /\ Len(chain) < RedirectCap
    THEN IF resp.location = EmptyUrl
         THEN [chain |-> chain, more |-> FALSE,
               issues |-> Append(issues, "Redirection sans en-tête Location")]
         ELSE IF InChain(resp.location, chain)
         THEN [chain |-> chain, more |-> FALSE,
               issues |-> Append(issues, "Boucle de redirection détectée")]
         ELSE [chain |-> Append(chain, resp.location), more |-> TRUE,
               issues |-> issues]
    ELSE [chain |-> chain, more |-> FALSE, issues |-> issues]

\* "Analyze chain for issues" at the end of analyze_redirects
ChainIssues(chain, issues) ==
    LET long == IF Len(chain) > 3
                THEN Append(issues, "Chaîne de redirection longue")
                ELSE issues
    IN  IF Len(chain) > 1
        THEN IF Cardinality({chain[i].scheme : i \in DOMAIN chain}) > 1
             THEN Append(long, "HTTP/HTTPS mélangé dans la chaîne de redirection")
             ELSE long
        ELSE issues

\* run_audit: result.redirect_chain = ...; result.issues.extend(...)
MergeRedirects(r, chain, issues) ==
    [r EXCEPT !.redirect_chain = chain, !.issues = @ \o issues,
              !.stage = "merged"]

\* the loop of analyze_redirects after a response has arrived
AfterRedirectResponse(chain, issues, resp) ==
    LET st == RedirectStep(chain, issues, resp)
    IN  IF st.more
        THEN /\ redirect_chain' = st.chain
             /\ redirect_issues' = st.issues
             /\ pc' = "redirect_hop_get"
             /\ UNCHANGED result
        ELSE /\ redirect_chain' = <<>>
             /\ redirect_issues' = <<>>
             /\ result' = MergeRedirects(result, st.chain,
                                         ChainIssues(st.chain, st.issues))
             /\ pc' = "append"

\* RedirectAnalyzer.analyze_redirects: the first GET
RedirectFirstGet ==
    /\ pc = "redirect_first_get"
    /\ \E d \in 0..MaxAuxDur, resp \in RedirectResponses :
         /\ Req(url, TRUE, d)
         /\ AfterRedirectResponse(<<url>>, <<>>, resp)
    /\ UNCHANGED <<config, unitVars, yielded, robots_parser, crawl_delay, crawlerVars,
                   last_request_time, url, results, summary, processed_count,
                   link_graph, returned, release_gap, interrupted, abortVars>>

\* RedirectAnalyzer.analyze_redirects: the GET of the next URL of the chain
RedirectHopGet ==
    /\ pc = "redirect_hop_get"
    /\ \E d \in 0..MaxAuxDur, resp \in RedirectResponses :
         /\ Req(redirect_chain[Len(redirect_chain)], TRUE, d)
         /\ AfterRedirectResponse(redirect_chain, redirect_issues, resp)
    /\ UNCHANGED <<config, unitVars, yielded, robots_parser, crawl_delay, crawlerVars,
                   last_request_time, url, results, summary, processed_count,
                   link_graph, returned, release_gap, interrupted, abortVars>>

\* ------------------------------------------------------- rest of the loop
\* self.results.append(result)
AppendResult ==
    /\ pc = "append"
    /\ results' = Append(results, result)
    /\ pc' = "add_result"
    /\ UNCHANGED <<config, unitVars, yielded, robots_parser, crawl_delay, crawlerVars,
                   last_request_time, url, result, redirectVars, summary,
                   processed_count, link_graph, returned, requestVars,
                   release_gap, interrupted, abortVars>>

\* self.summary.add_result(result); if len(self.results) >= max_pages: break
\* (the link analyzer is not fed: "For now, we'll skip this")
AddResult ==
    /\ pc = "add_result"
    /\ summary' = add_result(summary, result)
    /\ pc' = IF AtBudget(Len(results)) THEN "after_loop" ELSE "mark_crawled"
    /\ UNCHANGED <<config, unitVars, yielded, robots_parser, crawl_delay, crawlerVars,
                   last_request_time, url, result, redirectVars, results,
                   processed_count, link_graph, returned, requestVars,
                   release_gap, interrupted, abortVars>>

\* crawl_urls resumed after the yield: mark_url_crawled, then
\* discover_more_urls up to its request
MarkCrawled ==
    /\ pc = "mark_crawled"
    /\ crawled_urls' = crawled_urls \cup {url}
    /\ pc' = IF ~AtBudget(Cardinality(crawled_urls'))
                /\ ~AtBudget(Cardinality(discovered_urls))
             THEN "discover_get"
             ELSE "get_next"
    /\ UNCHANGED <<config, unitVars, yielded, robots_parser, crawl_delay, discovered_urls,
                   url_queue, last_request_time, url, result, redirectVars,
                   results, summary, processed_count, link_graph, returned,
                   requestVars, release_gap, interrupted, abortVars>>

\* URLDiscovery.discover_from_page and the loop of discover_more_urls
DiscoverGet ==
    /\ pc = "discover_get"
    /\ \E d \in 0..MaxAuxDur, hrefs \in LinkChoices :
         /\ Req(url, TRUE, d)
         /\ LET st == AddAll([disc |-> discovered_urls, q |-> url_queue],
                             extract_links_from_html(hrefs), TRUE)
            IN  /\ discovered_urls' = st.disc
                /\ url_queue' = st.q
    /\ pc' = "get_next"
    /\ UNCHANGED <<config, unitVars, yielded, robots_parser, crawl_delay, crawled_urls,
                   last_request_time, url, result, redirectVars, results,
                   summary, processed_count, link_graph, returned, release_gap,
                   interrupted, abortVars>>

\* after the try block: _run_advanced_analyses (reads results only), return
ReturnResults ==
    /\ pc = "after_loop"
    /\ returned' = results
    /\ pc' = "returned"
    /\ UNCHANGED <<config, unitVars, yielded, robots_parser, crawl_delay, crawlerVars,
                   last_request_time, url, result, redirectVars, results,
                   summary, processed_count, link_graph, requestVars,
                   release_gap, interrupted, abortVars>>

\* ------------------------------------------------ exceptions in the loop
\* the issue text analyze_page records for an exception class
FailureIssue(kind) ==
    CASE kind = "Timeout" -> "Timeout de la requête"
      [] kind = "RequestException" -> "Erreur de requête"
      [] OTHER -> "Erreur d'analyse"

\* exception classes that can surface at a pc: the transport errors of
\* requests where a request is in flight, any other Exception elsewhere,
\* KeyboardInterrupt everywhere
Raisable(at) ==
    IF at \in RequestPcs
    THEN {KeyboardInterrupt, "Timeout", "RequestException"}
    ELSE {KeyboardInterrupt, "Exception"}

\* the URL the request in flight at a pc is addressed to
RequestTarget(at) ==
    CASE at = "canonical_head" -> result.canonical
      [] at = "redirect_hop_get" -> redirect_chain[Len(redirect_chain)]
      [] OTHER -> url

\* the exception leaves every inner try block and reaches run_audit's handlers
Propagate(kind) ==
    /\ IF RunAuditCatches(kind)
       THEN /\ pc' = "after_loop"
            /\ abort_kind' = kind
            /\ abort_from' = pc
       ELSE /\ pc' = "crashed"
            /\ UNCHANGED abortVars
    /\ UNCHANGED <<result, redirectVars>>

\* An exception of class `kind` is raised while the loop is at pc; the
\* innermost enclosing try block that catches the class handles it.
Raise ==
    /\ pc \in LoopPcs
    /\ \E kind \in Raisable(pc) :
         /\ interrupted' = (interrupted \/ kind = KeyboardInterrupt)
         /\ IF pc \in RequestPcs
            THEN \E d \in 0..MaxAuxDur : Req(RequestTarget(pc), pc \in PageGetPcs, d)
            ELSE UNCHANGED requestVars
         /\ CASE pc = "analyze_get" /\ AnalyzePageCatches(kind) ->
                    \* analyzers.py 66-73
                    /\ result' = Analyzed([AddIssue(NewResult(url), FailureIssue(kind))
                                              EXCEPT !.failure = kind])
                    /\ pc' = AfterAnalyze
                    /\ UNCHANGED <<redirectVars, abortVars>>
              [] pc = "canonical_head" ->
                    \* analyzers.py 184-186, bare except
                    /\ result' = Analyzed(SelfCanonical(
                                     AddIssue([result EXCEPT !.canonical_ok = FALSE],
                                              "URL canonique non accessible")))
                    /\ pc' = AfterAnalyze
                    /\ UNCHANGED <<redirectVars, abortVars>>
              [] pc = "redirect_first_get" /\ IsException(kind) ->
                    \* analyzers.py 408-411: the chain is still empty
                    /\ result' = MergeRedirects(result, <<>>,
                                     <<"Erreur d'analyse des redirections">>)
                    /\ pc' = "append"
                    /\ UNCHANGED <<redirectVars, abortVars>>
              [] pc = "redirect_hop_get" ->
                    \* analyzers.py 394-396, bare except, then break
                    /\ result' = MergeRedirects(result, redirect_chain,
                                     ChainIssues(redirect_chain,
                                         Append(redirect_issues,
                                                "Chaîne de redirection interrompue")))
                    /\ redirect_chain' = <<>>
                    /\ redirect_issues' = <<>>
                    /\ pc' = "append"
                    /\ UNCHANGED abortVars
              [] pc = "discover_get" /\ IsException(kind) ->
                    \* crawler.py 125-126
                    /\ pc' = "get_next"
                    /\ UNCHANGED <<result, redirectVars, abortVars>>
              [] OTHER -> Propagate(kind)
    /\ UNCHANGED <<config, unitVars, yielded, robots_parser, crawl_delay, crawlerVars,
                   last_request_time, url, results, summary, processed_count,
                   link_graph, returned, release_gap>>

\* ------------------------------------------------------------ the crawl
Next ==
    \/ Construct
    \/ Validate
    \/ RunAuditStart
    \/ InitializeUrls
    \/ GetNextUrl
    \/ RespectRateLimit
    \/ Callback
    \/ AnalyzeGet
    \/ CanonicalHead
    \/ RedirectFirstGet
    \/ RedirectHopGet
    \/ AppendResult
    \/ AddResult
    \/ MarkCrawled
    \/ DiscoverGet
    \/ ReturnResults
    \/ Raise

Spec == Init /\ [][Next]_vars

\* the steps the interpreter takes when nothing is raised
Progress ==
    \/ Construct
    \/ Validate
    \/ RunAuditStart
    \/ InitializeUrls
    \/ GetNextUrl
    \/ RespectRateLimit
    \/ Callback
    \/ AnalyzeGet
    \/ CanonicalHead
    \/ RedirectFirstGet
    \/ RedirectHopGet
    \/ AppendResult
    \/ AddResult
    \/ MarkCrawled
    \/ DiscoverGet
    \/ ReturnResults

\* run_audit is one thread of control: it keeps executing while it has a
\* next statement; exceptions may or may not be raised
SpecLive == Spec /\ WF_vars(Progress)

\* --------------------------------------------- AuditSummary on its own
\* The unit tests drive AuditSummary.add_result directly with records of
\* their own making.
Latencies == {None, 0, 200, 300, 500}
IssueLists == {<<>>, <<"HTTP 404">>}

InitSummary ==
    /\ config = [domain |-> SiteRoot, max_pages |-> MaxRecords,
                 rate_limit |-> 1, follow_redirects |-> FALSE]
    /\ pc = "summary"
    /\ robots_parser = NoRobots
    /\ frame = NoFrame
    /\ Blank

AddResultCall ==
    /\ pc = "summary"
    /\ Len(results) < MaxRecords
    /\ \E ms \in Latencies, iss \in IssueLists :
         LET r == [NewResult(P("/a")) EXCEPT
                      !.response_ms = ms, !.issues = iss,
                      !.status = IF iss = <<>> THEN 200 ELSE 404]
         IN  /\ results' = Append(results, r)
             /\ summary' = add_result(summary, r)
    /\ UNCHANGED <<config, unitVars, yielded, pc, robots_parser, crawl_delay, crawlerVars,
                   last_request_time, url, result, redirectVars,
                   processed_count, link_graph, returned, requestVars,
                   release_gap, interrupted, abortVars>>

NextSummary == AddResultCall

SpecSummary == InitSummary /\ [][NextSummary]_vars

\* ------------------------------------- analyze_redirects on a fixed site
\* analyze_redirects(url) against a site whose answers do not change between
\* requests: frame.redirect_map gives the answer of every URL.
RedirectUrls == {P("/a"), P("/b"), Ext("/a")}

\* code 0: the request raises (connection refused, timeout)
MapResponses ==
    { [code |-> 200, location |-> EmptyUrl],
      [code |-> 301, location |-> EmptyUrl],
      [code |-> 0, location |-> EmptyUrl] }
    \cup { [code |-> 302, location |-> t] : t \in RedirectUrls }

\* a site that answers /r1 with a redirect to /r2, /r2 with one to /r3, ...
Hop(i) ==
    P(<<"/r1", "/r2", "/r3", "/r4", "/r5", "/r6", "/r7", "/r8", "/r9", "/r10",
        "/r11", "/r12", "/r13", "/r14", "/r15">>[i])
HopUrls == {Hop(i) : i \in 1..(MaxChain + 1)}

\* what the URL the chain of redirects ends with answers
ChainEnds ==
    { [code |-> 200, location |-> EmptyUrl],
      [code |-> 301, location |-> EmptyUrl],
      [code |-> 0, location |-> EmptyUrl],
      [code |-> 302, location |-> Hop(1)],
      [code |-> 302, location |-> Hop(MaxChain + 1)] }

\* /r1 -> /r2 -> ... -> /r<stop>, which answers `last`
ChainMap(stop, last) ==
    [u \in RedirectUrls \cup HopUrls |->
        IF \E i \in 1..(stop - 1) : u = Hop(i)
        THEN [code |-> 302,
              location |-> Hop((CHOOSE i \in 1..(stop - 1) : u = Hop(i)) + 1)]
        ELSE IF u = Hop(stop) THEN last
        ELSE [code |-> 200, location |-> EmptyUrl]]

\* every map over the three URLs, and every chain /r1.. up to MaxChain long
RedirectMaps ==
    { [u \in RedirectUrls \cup HopUrls |->
          IF u \in RedirectUrls THEN m[u] ELSE [code |-> 200, location |-> EmptyUrl]] :
      m \in [RedirectUrls -> MapResponses] }
    \cup { ChainMap(stop, last) : stop \in 1..MaxChain, last \in ChainEnds }

InitRedirect ==
    /\ config = [domain |-> SiteRoot, max_pages |-> 1, rate_limit |-> 1,
                 follow_redirects |-> TRUE]
    /\ pc = "redirect_first_get"
    /\ robots_parser = NoRobots
    /\ frame \in [op : {"analyze_redirects"},
                  url : {P("/a"), P("/b"), Hop(1)},
                  redirect_map : RedirectMaps]
    /\ Blank

\* the first GET of analyze_redirects(frame.url)
RedirectMapFirstGet ==
    /\ pc = "redirect_first_get"
    /\ Req(frame.url, TRUE, 0)
    /\ LET resp == frame.redirect_map[frame.url]
       IN  IF resp.code = 0
           THEN /\ result' = MergeRedirects(result, <<>>,
                                 <<"Erreur d'analyse des redirections">>)
                /\ pc' = "append"
                /\ UNCHANGED redirectVars
           ELSE AfterRedirectResponse(<<frame.url>>, <<>>, resp)
    /\ UNCHANGED <<config, unitVars, yielded, robots_parser, crawl_delay, crawlerVars,
                   last_request_time, url, results, summary, processed_count,
                   link_graph, returned, release_gap, interrupted, abortVars>>

\* the GET of the URL the chain ends with
RedirectMapHopGet ==
    /\ pc = "redirect_hop_get"
    /\ LET current_url == redirect_chain[Len(redirect_chain)]
           resp == frame.redirect_map[current_url]
       IN  /\ Req(current_url, TRUE, 0)
           /\ IF resp.code = 0
              THEN /\ result' = MergeRedirects(result, redirect_chain,
                                    ChainIssues(redirect_chain,
                                        Append(redirect_issues,
                                               "Chaîne de redirection interrompue")))
                   /\ redirect_chain' = <<>>
                   /\ redirect_issues' = <<>>
                   /\ pc' = "append"
              ELSE AfterRedirectResponse(redirect_chain, redirect_issues, resp)
    /\ UNCHANGED <<config, unitVars, yielded, robots_parser, crawl_delay, crawlerVars,
                   last_request_time, url, results, summary, processed_count,
                   link_graph, returned, release_gap, interrupted, abortVars>>

NextRedirect == RedirectMapFirstGet \/ RedirectMapHopGet

SpecRedirect == InitRedirect /\ [][NextRedirect]_vars

\* analyze_redirects keeps executing: each request returns or raises
SpecRedirectLive == SpecRedirect /\ WF_vars(NextRedirect)

\* ------------------------------------------------- InternalLinkAnalyzer
\* The link analyzer driven through its public methods: add_page_links any
\* number of times, then one query.
Home == SiteRoot
LinkPages == {Home, P("/a"), P("/b")}
LinkTargets == {Home, P("/a"), P("/b"), PF("/a"), Ext("/a")}
OutboundLists == {<<>>} \cup {<<t>> : t \in LinkTargets}
SitemapSets == {{Home, P("/a"), P("/b"), P("/c")}, {P("/a"), P("/c")}}

\* defaultdict(set): graph[key].add(value)
SetAdd(graph, key, value) ==
    [k \in DOMAIN graph \cup {key} |->
        IF k = key
        THEN (IF key \in DOMAIN graph THEN graph[key] ELSE {}) \cup {value}
        ELSE graph[k]]

\* defaultdict(set): reading graph[key] creates the entry
Touch(graph, key) ==
    [k \in DOMAIN graph \cup {key} |-> IF k \in DOMAIN graph THEN graph[k] ELSE {}]

\* InternalLinkAnalyzer.add_page_links, on [lg, rg, all]
RECURSIVE AddLinks(_, _, _)
AddLinks(st, page_url, outbound_links) ==
    IF outbound_links = <<>> THEN st
    ELSE LET normalized_link == normalize_url(Head(outbound_links))
             st1 == IF normalized_link # EmptyUrl
                       /\ is_same_domain(normalized_link, page_url)
                    THEN [lg |-> SetAdd(st.lg, page_url, normalized_link),
                          rg |-> SetAdd(st.rg, normalized_link, page_url),
                          all |-> st.all \cup {normalized_link}]
                    ELSE st
         IN  AddLinks(st1, page_url, Tail(outbound_links))

add_page_links(st, page_url, outbound_links) ==
    AddLinks([st EXCEPT !.all = @ \cup {page_url}], page_url, outbound_links)

\* InternalLinkAnalyzer.find_orphaned_pages
find_orphaned_pages(sitemap_urls) ==
    {u \in sitemap_urls :
        u \notin DOMAIN reverse_link_graph \/ reverse_link_graph[u] = {}}

\* the depth left as it is
NextDepth_Same(current_depth) == current_depth

\* depths[linked_url] = current_depth + 1
NextDepth(current_depth) == current_depth + 1

InitLinks ==
    /\ config = [domain |-> SiteRoot, max_pages |-> 1, rate_limit |-> 1,
                 follow_redirects |-> FALSE]
    /\ pc = "links"
    /\ robots_parser = NoRobots
    /\ frame = [op |-> "add_page_links", calls |-> 0]
    /\ Blank

linkFrame == <<config, serverVars, yielded, robots_parser, crawl_delay, crawlerVars,
               last_request_time, url, result, redirectVars, results, summary,
               processed_count, returned, requestVars, release_gap,
               interrupted, abortVars>>

AddPageLinksCall ==
    /\ pc = "links"
    /\ frame.calls < MaxLinkCalls
    /\ \E page_url \in LinkPages, outbound_links \in OutboundLists :
         LET st == add_page_links([lg |-> link_graph, rg |-> reverse_link_graph,
                                   all |-> all_urls], page_url, outbound_links)
         IN  /\ link_graph' = st.lg
             /\ reverse_link_graph' = st.rg
             /\ all_urls' = st.all
    /\ frame' = [frame EXCEPT !.calls = @ + 1]
    /\ UNCHANGED <<pc, linkFrame>>

FindOrphanedPagesCall ==
    /\ pc = "links"
    /\ \E sitemap_urls \in SitemapSets :
         frame' = [op |-> "find_orphaned_pages", sitemap_urls |-> sitemap_urls,
                   orphaned |-> find_orphaned_pages(sitemap_urls)]
    /\ pc' = "links_done"
    /\ UNCHANGED <<link_graph, reverse_link_graph, all_urls, linkFrame>>

\* get_page_authority_metrics: reverse_link_graph[url] and link_graph[url] are
\* read for every url of all_urls, and a defaultdict read of a missing key
\* inserts the key
GetPageAuthorityMetricsCall ==
    /\ pc = "links"
    /\ LET rg == [k \in DOMAIN reverse_link_graph \cup all_urls |->
                     Touch(reverse_link_graph, k)[k]]
           lg == [k \in DOMAIN link_graph \cup all_urls |->
                     Touch(link_graph, k)[k]]
       IN  /\ reverse_link_graph' = rg
           /\ link_graph' = lg
           /\ frame' = [op |-> "get_page_authority_metrics",
                        metrics |-> [u \in all_urls |->
                            [inbound_links |-> Cardinality(rg[u]),
                             outbound_links |-> Cardinality(lg[u]),
                             authority_score |-> Cardinality(rg[u])]]]
    /\ pc' = "links_done"
    /\ UNCHANGED <<all_urls, linkFrame>>

\* find_link_depth up to the while loop
FindLinkDepthCall ==
    /\ pc = "links"
    /\ \E start_url \in LinkPages :
         frame' = [op |-> "find_link_depth", start_url |-> start_url,
                   depths |-> [u \in {start_url} |-> 0], queue |-> <<start_url>>]
    /\ pc' = "find_link_depth"
    /\ UNCHANGED <<link_graph, reverse_link_graph, all_urls, linkFrame>>

\* one pass of the while loop; the set link_graph[current_url] is iterated
\* in any order
FindLinkDepthStep ==
    /\ pc = "find_link_depth"
    /\ frame.queue # <<>>
    /\ LET current_url == Head(frame.queue)
           current_depth == frame.depths[current_url]
           graph == Touch(link_graph, current_url)
           fresh == {l \in graph[current_url] : l \notin DOMAIN frame.depths}
       IN  /\ link_graph' = graph
           /\ \E order \in Orders(fresh) :
                frame' = [frame EXCEPT
                    !.depths = [u \in DOMAIN frame.depths \cup fresh |->
                                   IF u \in fresh THEN NextDepth(current_depth)
                                   ELSE frame.depths[u]],
                    !.queue = Tail(frame.queue) \o order]
    /\ UNCHANGED <<pc, reverse_link_graph, all_urls, linkFrame>>

\* the queue is empty: return depths
FindLinkDepthReturn ==
    /\ pc = "find_link_depth"
    /\ frame.queue = <<>>
    /\ pc' = "links_done"
    /\ UNCHANGED <<frame, link_graph, reverse_link_graph, all_urls, linkFrame>>

NextLinks ==
    \/ AddPageLinksCall
    \/ FindOrphanedPagesCall
    \/ GetPageAuthorityMetricsCall
    \/ FindLinkDepthCall
    \/ FindLinkDepthStep
    \/ FindLinkDepthReturn

SpecLinks == InitLinks /\ [][NextLinks]_vars

\* a call that has started keeps running
SpecLinksLive ==
    SpecLinks /\ WF_vars(FindLinkDepthStep \/ FindLinkDepthReturn)

\* ------------------------------------------------------ deduplicate_urls
\* deduplicate_urls called on lists of the unit test's kind
RootSlash == P("/")                          \* "https://site/"
RootFragment == Url("https", "site", "", "f")  \* "https://site#f"
DedupInputs == {SiteRoot, RootSlash, RootFragment, P("/p"), BareDomain, EmptyUrl}

InitDedup ==
    /\ config = [domain |-> SiteRoot, max_pages |-> 1, rate_limit |-> 1,
                 follow_redirects |-> FALSE]
    /\ pc = "deduplicate_urls"
    /\ robots_parser = NoRobots
    /\ frame \in [op : {"deduplicate_urls"},
                  urls : UNION {[1..n -> DedupInputs] : n \in 0..MaxUrls}]
    /\ Blank

DeduplicateUrlsCall ==
    /\ pc = "deduplicate_urls"
    /\ frame' = [op |-> "deduplicate_urls", urls |-> frame.urls,
                 result |-> deduplicate_urls(frame.urls)]
    /\ pc' = "deduplicate_urls_done"
    /\ UNCHANGED <<link_graph, reverse_link_graph, all_urls, linkFrame>>

NextDedup == DeduplicateUrlsCall

SpecDedup == InitDedup /\ [][NextDedup]_vars

\* ------------------------------------------------------ heading analysis
\* A document is the sequence of its heading elements in document order;
\* a heading text is known by its length after clean_text.  Issue texts are
\* sequences of words, so that `keyword in issue.lower()` is a search for a
\* run of words.
HeadingLevels == 1..3
TextLengths == {0, 10, 80, 120}
HeadingElements == [level : HeadingLevels, text : TextLengths]
Documents == UNION {[1..n -> HeadingElements] : n \in 0..MaxHeadings}

HTag == <<"H1", "H2", "H3", "H4", "H5", "H6", "H7">>
LowerTag == <<"h1", "h2", "h3", "h4", "h5", "h6", "h7">>

\* str.lower() on a word
Lower(word) ==
    IF \E l \in DOMAIN HTag : word = HTag[l]
    THEN LowerTag[CHOOSE l \in DOMAIN HTag : word = HTag[l]]
    ELSE CASE word = "Aucun" -> "aucun"
           [] word = "Le" -> "le"
           [] word = "Plusieurs" -> "plusieurs"
           [] word = "Saut" -> "saut"
           [] OTHER -> word

LowerAll(words) == [i \in DOMAIN words |-> Lower(words[i])]

\* keyword in text
Contains(text, keyword) ==
    \E i \in 0..(Len(text) - Len(keyword)) :
        \A j \in DOMAIN keyword : text[i + j] = keyword[j]

\* ['no h1', 'multiple h1', 'skip', 'no headings']
SignificantKeywords ==
    {<<"no", "h1">>, <<"multiple", "h1">>, <<"skip">>, <<"no", "headings">>}

\* text[:100]
Truncate(text) == IF text > 100 THEN 100 ELSE text

\* the collection loop of _analyze_heading_structure: for level in 1..6,
\* every non-empty h<level> element of the document
RECURSIVE CollectHeadings(_, _)
CollectHeadings(html, level) ==
    IF level > 6 THEN <<>>
    ELSE SelectSeq(html, LAMBDA h : h.level = level /\ h.text > 0)
         \o CollectHeadings(html, level + 1)

HeadingItems(elements) ==
    [i \in DOMAIN elements |->
        [level |-> elements[i].level, text |-> Truncate(elements[i].text),
         position |-> i - 1]]

\* the level-skip loop of _validate_heading_hierarchy
RECURSIVE LevelSkips(_, _)
LevelSkips(headings, prev_level) ==
    IF headings = <<>> THEN <<>>
    ELSE LET current_level == Head(headings).level
         IN  (IF prev_level > 0 /\ current_level > prev_level + 1
              THEN << <<"Saut", "de", "niveau", "de", "titre", ":",
                        HTag[prev_level], "→", HTag[current_level], "(",
                        HTag[prev_level + 1], "manquant", ")">> >>
              ELSE <<>>)
             \o LevelSkips(Tail(headings), current_level)

\* the issues list built by _validate_heading_hierarchy for a non-empty list
HierarchyIssues(headings) ==
    LET h1_headings == SelectSeq(headings, LAMBDA h : h.level = 1)
        empty_headings == SelectSeq(headings, LAMBDA h : h.text = 0)
        long_headings == SelectSeq(headings, LAMBDA h : h.text > 70)
    IN  (IF headings[1].level # 1
         THEN << <<"Le", "premier", "titre", "est", HTag[headings[1].level],
                   ",", "devrait", "être", "H1">> >>
         ELSE <<>>)
        \o (IF h1_headings = <<>>
            THEN << <<"Aucun", "titre", "H1", "trouvé">> >>
            ELSE IF Len(h1_headings) > 1
            THEN << <<"Plusieurs", "titres", "H1", "trouvés", "(",
                      ToString(Len(h1_headings)), ")">> >>
            ELSE <<>>)
        \o LevelSkips(headings, 0)
        \o (IF empty_headings # <<>>
            THEN << <<ToString(Len(empty_headings)), "titres", "vides",
                      "trouvés">> >>
            ELSE <<>>)
        \o (IF long_headings # <<>>
            THEN << <<ToString(Len(long_headings)), "titres", "trop", "longs",
                      "(", ">70", "caractères", ")">> >>
            ELSE <<>>)

\* PageAnalyzer._validate_heading_hierarchy
validate_heading_hierarchy(headings, r) ==
    IF headings = <<>>
    THEN [r EXCEPT
            !.headings_hierarchy_issues = Append(@, <<"Aucun", "titre", "trouvé">>),
            !.issues = Append(@, <<"Aucun", "titre", "trouvé">>)]
    ELSE LET issues == HierarchyIssues(headings)
             significant ==
                 SelectSeq(issues, LAMBDA issue :
                     \E keyword \in SignificantKeywords :
                         Contains(LowerAll(issue), keyword))
         IN  [r EXCEPT
                !.headings_hierarchy_issues = issues,
                !.issues = @ \o [i \in DOMAIN significant |->
                                   <<"Structure", "des", "titres", ":">>
                                   \o significant[i]]]

\* PageAnalyzer._analyze_heading_structure
analyze_heading_structure(html, r) ==
    LET headings == HeadingItems(CollectHeadings(html, 1))
    IN  validate_heading_hierarchy(headings,
                                   [r EXCEPT !.headings_structure = headings])

InitHeadings ==
    /\ config = [domain |-> SiteRoot, max_pages |-> 1, rate_limit |-> 1,
                 follow_redirects |-> FALSE]
    /\ pc = "analyze_heading_structure"
    /\ robots_parser = NoRobots
    /\ frame \in [op : {"analyze_heading_structure"}, html : Documents]
    /\ Blank

AnalyzeHeadingStructureCall ==
    /\ pc = "analyze_heading_structure"
    /\ result' = analyze_heading_structure(frame.html, result)
    /\ pc' = "analyze_heading_structure_done"
    /\ UNCHANGED <<config, unitVars, yielded, robots_parser, crawl_delay, crawlerVars,
                   last_request_time, url, redirectVars, results, summary,
                   processed_count, link_graph, returned, requestVars,
                   release_gap, interrupted, abortVars>>

NextHeadings == AnalyzeHeadingStructureCall

SpecHeadings == InitHeadings /\ [][NextHeadings]_vars

\* ------------------------------------------------------ sitemap discovery
\* URLDiscovery.discover_from_sitemap against a site whose sitemap documents
\* are given by frame.site.  The recursion _parse_sitemap ->
\* _fetch_nested_sitemap -> _parse_sitemap is kept as a stack of the index
\* loops still running; it ends with a RecursionError, caught by the
\* `except Exception` of _fetch_nested_sitemap, at depth MaxNesting.
TopSitemaps == <<P("/sitemap.xml"), P("/sitemap_index.xml"), P("/sitemaps.xml")>>
NestedSitemap == P("/nested.xml")
SitemapUrls == SeqToSet(TopSitemaps) \cup {NestedSitemap}

\* missing: no 200 answer, or a body that is not XML
MissingSitemap == [kind |-> "missing", locs |-> <<>>]
SitemapDocs ==
    { MissingSitemap,
      [kind |-> "urlset", locs |-> <<PF("/a"), Ext("/a")>>],
      [kind |-> "index", locs |-> <<NestedSitemap>>],
      [kind |-> "index", locs |-> <<TopSitemaps[1]>>],
      [kind |-> "index", locs |-> <<NestedSitemap, Ext("/sitemap.xml")>>] }

\* the document a sitemap request brings back
SitemapAt(site, sitemap_url) ==
    IF sitemap_url \in DOMAIN site THEN site[sitemap_url] ELSE MissingSitemap

\* the urlset branch of _parse_sitemap
UrlsetUrls(doc, domain) ==
    {normalize_url(doc.locs[i]) :
        i \in {j \in DOMAIN doc.locs : is_same_domain(doc.locs[j], domain)}}

\* _parse_sitemap on a fetched document, called at nesting depth `depth`
ParseSitemap(f, doc, depth) ==
    CASE doc.kind = "index" ->
            [f EXCEPT !.stack = Append(@, [pending |-> doc.locs,
                                           depth |-> depth + 1])]
      [] doc.kind = "urlset" ->
            [f EXCEPT !.urls = @ \cup UrlsetUrls(doc, config.domain)]
      [] OTHER -> f

InitSitemap ==
    /\ config = [domain |-> SiteRoot, max_pages |-> 1, rate_limit |-> 1,
                 follow_redirects |-> FALSE]
    /\ pc = "discover_from_sitemap"
    /\ robots_parser = NoRobots
    /\ frame \in [op : {"discover_from_sitemap"},
                  site : [SitemapUrls -> SitemapDocs],
                  next : {1}, stack : {<<>>}, urls : {{}}, max_depth : {0}]
    /\ Blank

sitemapFrame == <<config, serverVars, yielded, robots_parser, crawl_delay, crawlerVars,
                  last_request_time, url, result, redirectVars, results,
                  summary, processed_count, link_graph, reverse_link_graph,
                  all_urls, returned, release_gap, interrupted, abortVars>>

\* one pass of the loop over the three common sitemap locations
FetchTopSitemap ==
    /\ pc = "discover_from_sitemap"
    /\ frame.stack = <<>>
    /\ frame.next <= Len(TopSitemaps)
    /\ LET sitemap_url == TopSitemaps[frame.next]
       IN  /\ Req(sitemap_url, FALSE, 0)
           /\ frame' = ParseSitemap([frame EXCEPT !.next = @ + 1],
                                    SitemapAt(frame.site, sitemap_url), 0)
    /\ UNCHANGED <<pc, sitemapFrame>>

\* _fetch_nested_sitemap for the next <sitemap> element of the innermost index
FetchNestedSitemap ==
    /\ pc = "discover_from_sitemap"
    /\ frame.stack # <<>>
    /\ LET top == frame.stack[Len(frame.stack)]
       IN  /\ top.pending # <<>>
           /\ LET sitemap_url == Head(top.pending)
                  f == [frame EXCEPT
                           !.stack[Len(frame.stack)].pending = Tail(@)]
              IN  IF top.depth > MaxNesting
                  THEN /\ frame' = f          \* RecursionError, caught
                       /\ UNCHANGED requestVars
                  ELSE /\ Req(sitemap_url, FALSE, 0)
                       /\ frame' = ParseSitemap(
                              [f EXCEPT !.max_depth =
                                  IF top.depth > @ THEN top.depth ELSE @],
                              SitemapAt(frame.site, sitemap_url), top.depth)
    /\ UNCHANGED <<pc, sitemapFrame>>

\* the innermost index loop is over: _parse_sitemap returns
ParseSitemapReturn ==
    /\ pc = "discover_from_sitemap"
    /\ frame.stack # <<>>
    /\ frame.stack[Len(frame.stack)].pending = <<>>
    /\ frame' = [frame EXCEPT !.stack = SubSeq(@, 1, Len(@) - 1)]
    /\ UNCHANGED <<pc, requestVars, sitemapFrame>>

\* return list(urls)
DiscoverFromSitemapReturn ==
    /\ pc = "discover_from_sitemap"
    /\ frame.stack = <<>>
    /\ frame.next > Len(TopSitemaps)
    /\ pc' = "discover_from_sitemap_done"
    /\ UNCHANGED <<frame, requestVars, sitemapFrame>>

NextSitemap ==
    \/ FetchTopSitemap
    \/ FetchNestedSitemap
    \/ ParseSitemapReturn
    \/ DiscoverFromSitemapReturn

SpecSitemap == InitSitemap /\ [][NextSitemap]_vars

\* ------------------------------------------------ the crawler's frontier
\* SEOCrawler driven method by method: _add_url_to_queue with any URL,
\* get_next_url, mark_url_crawled for the URL handed out.
QueueCandidates ==
    {P("/a"), P("/b"), PF("/a"), Ext("/a"), BareDomain, EmptyUrl,
     Url("https", "", "/a", ""),      \* "https:///a": no host
     Url("", "site", "/a", "")}       \* "//site/a": no scheme

InitQueue ==
    /\ config = [domain |-> SiteRoot, max_pages |-> MaxPagesBound,
                 rate_limit |-> 1, follow_redirects |-> FALSE]
    /\ pc = "crawler"
    /\ robots_parser \in RobotsChoices
    /\ frame = [op |-> "__init__", url |-> EmptyUrl]
    /\ Blank

queueFrame == <<config, serverVars, yielded, pc, robots_parser, crawl_delay, last_request_time,
                url, result, redirectVars, results, summary, processed_count,
                link_graph, reverse_link_graph, all_urls, returned,
                requestVars, release_gap, interrupted, abortVars>>

AddUrlToQueueCall ==
    /\ pc = "crawler"
    /\ \E u \in QueueCandidates :
         LET st == add_url_to_queue([disc |-> discovered_urls, q |-> url_queue], u)
         IN  /\ discovered_urls' = st.disc
             /\ url_queue' = st.q
             /\ frame' = [op |-> "_add_url_to_queue", url |-> u]
    /\ UNCHANGED <<crawled_urls, queueFrame>>

GetNextUrlCall ==
    /\ pc = "crawler"
    /\ url_queue # <<>>
    /\ ~AtBudget(Cardinality(crawled_urls))
    /\ url_queue' = Tail(url_queue)
    /\ frame' = [op |-> "get_next_url", url |-> Head(url_queue)]
    /\ UNCHANGED <<discovered_urls, crawled_urls, queueFrame>>

MarkUrlCrawledCall ==
    /\ pc = "crawler"
    /\ frame.op = "get_next_url"
    /\ crawled_urls' = crawled_urls \cup {frame.url}
    /\ frame' = [op |-> "mark_url_crawled", url |-> frame.url]
    /\ UNCHANGED <<discovered_urls, url_queue, queueFrame>>

NextQueue == AddUrlToQueueCall \/ GetNextUrlCall \/ MarkUrlCrawledCall

SpecQueue == InitQueue /\ [][NextQueue]_vars

\* ------------------------------------------------------- simple_server
\* The HTTP server (HTTPServer: one request handled at a time) and the
\* run_analysis threads it starts, which run beside the handlers.
\* analysis_id = f"analysis_{int(time.time())}"
AnalysisId(t) == t \div TicksPerSecond

\* SEOAuditHandler.get_analysis_status: the analysis_id is not looked at
get_analysis_status(analysis_id) ==
    IF status_file = NoFile THEN StatusData(None, "not_found", "", None)
    ELSE IF status_file = Truncated THEN StatusData(None, "error", "", None)
    ELSE status_file

InitServer ==
    /\ config = [domain |-> SiteRoot, max_pages |-> 1, rate_limit |-> 1,
                 follow_redirects |-> FALSE]
    /\ pc = "server"
    /\ robots_parser = NoRobots
    /\ frame = [op |-> "serve_forever", started |-> <<>>, saved |-> {}]
    /\ Blank

serverFrame == <<config, pc, robots_parser, crawl_delay, crawlerVars,
                 last_request_time, url, result, redirectVars, results, summary,
                 processed_count, yielded, link_graph, reverse_link_graph,
                 all_urls, returned, page_fetches, last_req_at, req_gap,
                 network_used, offsite, release_gap, interrupted, abortVars>>

\* the wall clock moves on
ServerTick ==
    /\ pc = "server"
    /\ now < MaxTime
    /\ now' = now + 1
    /\ UNCHANGED <<frame, serverVars, serverFrame>>

\* handle_start_analysis, for the domain the request carries ("": none);
\* without a domain the answer is 400; otherwise the
\* status "running" is saved, the thread is started and the id is returned
StartAnalysis ==
    /\ pc = "server"
    /\ Len(frame.started) < MaxAnalyses
    /\ \E domain \in {"", "site", "ext"} :
         IF domain = ""
         THEN UNCHANGED <<frame, status_file, threads>>
         ELSE LET analysis_id == AnalysisId(now)
                  serial == Len(frame.started) + 1
              IN  /\ status_file' = StatusData(analysis_id, "running", domain, serial)
                  /\ threads' = threads \cup
                         {[serial |-> serial, analysis_id |-> analysis_id,
                           domain |-> domain, status |-> "running"]}
                  /\ frame' = [frame EXCEPT
                         !.started = Append(@, analysis_id),
                         !.saved = @ \cup {<<serial, "running">>}]
    /\ UNCHANGED <<now, response, serverFrame>>

\* run_analysis: the subprocess has ended; save_analysis_status opens the
\* status file with mode 'w', which empties it
RunAnalysisOpen ==
    /\ pc = "server"
    /\ \E th \in threads, status \in {"completed", "error"} :
         /\ th.status = "running"
         /\ threads' = (threads \ {th}) \cup {[th EXCEPT !.status = status]}
         /\ status_file' = Truncated
    /\ UNCHANGED <<now, frame, response, serverFrame>>

\* run_analysis: json.dump writes status_data, the file is closed and the
\* thread ends
RunAnalysisDump ==
    /\ pc = "server"
    /\ \E th \in threads :
         /\ th.status # "running"
         /\ threads' = threads \ {th}
         /\ status_file' = StatusData(th.analysis_id, th.status, th.domain, th.serial)
         /\ frame' = [frame EXCEPT !.saved = @ \cup {<<th.serial, th.status>>}]
    /\ UNCHANGED <<now, response, serverFrame>>

\* handle_analysis_status for the analysis_id a client was given
AnalysisStatus ==
    /\ pc = "server"
    /\ \E serial \in DOMAIN frame.started :
         LET analysis_id == frame.started[serial]
         IN  response' = [asked |-> analysis_id, asked_serial |-> serial,
                          status |-> get_analysis_status(analysis_id)]
    /\ UNCHANGED <<now, frame, status_file, threads, serverFrame>>

NextServer ==
    \/ ServerTick
    \/ StartAnalysis
    \/ RunAnalysisOpen
    \/ RunAnalysisDump
    \/ AnalysisStatus

SpecServer == InitServer /\ [][NextServer]_vars


\* ================================================================ claims
TransportErrors == {"Timeout", "RequestException"}

IsPrefix(s, t) == Len(s) <= Len(t) /\ SubSeq(t, 1, Len(s)) = s

\* C1: with max_pages >= 1 the number of URLs yielded by crawl_urls, and the
\* number of PageResults in results, never exceeds config.max_pages.
C1_PageBudget ==
    config.max_pages >= 1 =>
        /\ processed_count <= config.max_pages
        /\ Len(results) <= config.max_pages

\* a run that used up a budget of two or more pages and returned
C1_Witness ==
    /\ pc = "returned"
    /\ config.max_pages >= 2
    /\ processed_count = config.max_pages
    /\ Len(results) = config.max_pages

\* C2: the GET requests sent to page URLs (analyzer, redirect resolver and
\* link discovery together) never number more than max_pages.
C2_FetchBudget ==
    config.max_pages >= 1 => page_fetches <= config.max_pages

\* the delay the claim names: the robots.txt crawl-delay if one is declared,
\* else 1/rate_limit
RobotsDeclared == robots_parser.loaded /\ robots_parser.delay # None

DeclaredDelay ==
    IF RobotsDeclared
    THEN robots_parser.delay * TicksPerSecond
    ELSE TicksPerSecond \div config.rate_limit

\* C3: two URLs yielded one after the other are released by the rate limiter
\* at least the crawl delay apart (robots.txt crawl-delay if declared, else
\* 1/rate_limit).
C3_ReleaseSpacing ==
    (release_gap # None /\ (RobotsDeclared \/ config.rate_limit > 0)) =>
        release_gap >= DeclaredDelay

\* the second URL was held back until exactly the delay had passed
C3_Witness ==
    /\ processed_count = 2
    /\ (RobotsDeclared \/ config.rate_limit > 0)
    /\ DeclaredDelay > 0
    /\ release_gap = DeclaredDelay

\* C4: between any two consecutive requests sent to the crawled host at least
\* the crawl delay elapses.
C4_RequestSpacing ==
    req_gap # None => req_gap >= crawl_delay

C6_StopAfterInterrupt ==
    [][interrupted =>
          /\ Len(results') = Len(results)
          /\ processed_count' = processed_count]_vars

\* C7: a failed fetch or analysis still gives the URL exactly one PageResult
\* with an issue (status absent on a transport failure), the failure never
\* reaches run_audit's handlers, and the crawl goes on with the URL marked
\* crawled like any other.
C7_FailureContained ==
    /\ \A i \in DOMAIN results :
         results[i].failure # "none" =>
            /\ results[i].issues # <<>>
            /\ results[i].failure \in TransportErrors =>
                  results[i].status = None /\ results[i].response_ms = None
    /\ abort_kind \notin TransportErrors
    /\ \A i, j \in DOMAIN results : results[i].url = results[j].url => i = j
    /\ \A u \in crawled_urls : \E i \in DOMAIN results : results[i].url = u

\* a page whose fetch failed is followed by the record of the next page
C7_Witness ==
    \E i \in DOMAIN results :
        /\ i < Len(results)
        /\ results[i].failure \in TransportErrors
        /\ results[i].url \in crawled_urls

\* C8: a configuration that validation rejects is rejected before any
\* outbound request (the robots.txt fetch included) and nothing is crawled.
C8_RejectBeforeNetwork ==
    pc = "rejected" => (~network_used /\ results = <<>>)

\* C9: before the next URL is dequeued, and at the end of the crawl, the link
\* graph's forward adjacency holds every processed page that has internal links.
C9_LinksRecorded ==
    pc \in {"rate_limit", "returned"} =>
        \A i \in DOMAIN results :
            results[i].links_internal > 0 =>
                /\ results[i].url \in DOMAIN link_graph
                /\ link_graph[results[i].url] # {}

RECURSIVE SumLatency(_)
SumLatency(rs) ==
    IF rs = <<>> THEN 0
    ELSE (IF Head(rs).response_ms # None THEN Head(rs).response_ms ELSE 0)
         + SumLatency(Tail(rs))

\* C10: avg_response_time is the arithmetic mean of the response_ms of the
\* records added so far whose latency is present.
C10_RunningMean ==
    LET timed == {i \in DOMAIN results : results[i].response_ms # None}
        avg == summary.avg_response_time
    IN  IF timed = {} THEN avg[1] = 0
        ELSE avg[1] * Cardinality(timed) = SumLatency(results) * avg[2]

\* C18: every outbound request of a crawl (page GET, canonical HEAD,
\* redirect-chain GET, sitemap GET) is addressed to the host of config.domain.
C18_RequestsOnSite == ~offsite

\* C19: every PageResult in results has been through analyze_page and, when
\* follow_redirects is set, has its redirect chain and redirect issues
\* merged - also after an interruption; a record of results is never changed
\* or removed afterwards.
C19_RecordsComplete ==
    /\ [](\A i \in DOMAIN results :
            results[i].stage =
                IF config.follow_redirects THEN "merged" ELSE "analyzed")
    /\ [][\A i \in DOMAIN results :
            i \in DOMAIN results' /\ results'[i] = results[i]]_vars

\* an interrupted crawl returned a record that carries a followed redirect
C19_Witness ==
    /\ pc = "returned"
    /\ interrupted
    /\ config.follow_redirects
    /\ \E i \in DOMAIN results :
          /\ Len(results[i].redirect_chain) = 2
          /\ results[i].stage = "merged"

NoRepeat(s) == \A i, j \in DOMAIN s : s[i] = s[j] => i = j

\* C11: the chain analyze_redirects builds and returns never holds a URL
\* twice; when the last URL of the returned chain redirects to a URL of the
\* chain, that target is not appended and the redirect-loop issue is reported.
C11_NoRepeatInChain ==
    /\ NoRepeat(redirect_chain)
    /\ NoRepeat(result.redirect_chain)
    /\ (pc = "append" /\ result.redirect_chain # <<>>) =>
          LET chain == result.redirect_chain
              resp == frame.redirect_map[chain[Len(chain)]]
          IN  (/\ resp.code \in RedirectCodes
               /\ Len(chain) < RedirectCap
               /\ resp.location # EmptyUrl
               /\ resp.location \in SeqToSet(chain))
              => \E k \in DOMAIN result.issues :
                     result.issues[k] = "Boucle de redirection détectée"

\* A -> B -> A: the chain returned is [A, B], with the loop issue
C11_Witness ==
    /\ pc = "append"
    /\ frame.redirect_map[P("/a")].location = P("/b")
    /\ frame.redirect_map[P("/b")].location = P("/a")
    /\ result.redirect_chain = <<P("/a"), P("/b")>>
    /\ \E k \in DOMAIN result.issues :
          result.issues[k] = "Boucle de redirection détectée"

Edges(graph) == UNION {{<<u, v>> : v \in graph[u]} : u \in DOMAIN graph}

\* C12: with a link graph built from exactly the edges home -> p1 and
\* p1 -> p2, find_orphaned_pages({home, p1, p2, p3}) returns exactly {p3}.
C12_OrphanExample ==
    (/\ pc = "links_done"
     /\ frame.op = "find_orphaned_pages"
     /\ Edges(link_graph) = {<<Home, P("/a")>>, <<P("/a"), P("/b")>>}
     /\ frame.sitemap_urls = {Home, P("/a"), P("/b"), P("/c")})
    => frame.orphaned = {P("/c")}

\* nodes at the end of a path of exactly n forward edges from S
RECURSIVE ReachIn(_, _, _)
ReachIn(graph, S, n) ==
    IF n = 0 THEN S
    ELSE UNION {graph[u] : u \in ReachIn(graph, S, n - 1) \cap DOMAIN graph}

GraphNodes(graph) == DOMAIN graph \cup UNION {graph[u] : u \in DOMAIN graph}

\* shortest-path lengths from start over forward edges; no entry for a node
\* that cannot be reached
ShortestDepths(graph, start) ==
    LET N == Cardinality(GraphNodes(graph))
        reached == UNION {ReachIn(graph, {start}, n) : n \in 0..N}
    IN  [u \in reached |->
            CHOOSE n \in 0..N :
                /\ u \in ReachIn(graph, {start}, n)
                /\ \A m \in 0..(n - 1) : u \notin ReachIn(graph, {start}, m)]

\* C13: find_link_depth returns, for every link graph (cycles included) and
\* start URL, depth 0 for the start, the shortest-path length for every node
\* reachable over forward edges and no entry for the others; and it returns.
C13_BfsDepth ==
    /\ []((pc = "links_done" /\ frame.op = "find_link_depth") =>
            frame.depths = ShortestDepths(link_graph, frame.start_url))
    /\ ((pc = "find_link_depth") ~> (pc = "links_done"))

\* home -> p1 -> p2 -> home: a cycle, depths {home: 0, p1: 1, p2: 2}
C13_Witness ==
    /\ pc = "links_done"
    /\ frame.op = "find_link_depth"
    /\ Edges(link_graph) =
          {<<Home, P("/a")>>, <<P("/a"), P("/b")>>, <<P("/b"), Home>>}
    /\ frame.start_url = Home
    /\ frame.depths[P("/b")] = 2
    /\ P("/c") \notin DOMAIN frame.depths

\* the same URL up to the fragment and the trailing slash of the root path
SamePage(u, v) ==
    /\ u.scheme = v.scheme
    /\ u.host = v.host
    /\ (IF u.path = "/" THEN "" ELSE u.path) = (IF v.path = "/" THEN "" ELSE v.path)

\* C14: deduplicate_urls counts URLs that differ only by a fragment or by the
\* trailing slash of the root as one entry: the list [bare host, host with
\* trailing slash, host with fragment, one other path] gives exactly 2 entries.
C14_DedupExample ==
    pc = "deduplicate_urls_done" =>
        /\ \A i, j \in DOMAIN frame.result :
              SamePage(frame.result[i], frame.result[j]) => i = j
        /\ frame.urls = <<SiteRoot, RootSlash, RootFragment, P("/p")>>
              => Len(frame.result) = 2

\* C15: headings_structure lists the non-empty H1-H6 elements in the order
\* of the document, the i-th entry with position i (0-based): a document
\* with an H2 followed by an H1 gives [H2 at 0, H1 at 1].
C15_DocumentOrder ==
    pc = "analyze_heading_structure_done" =>
        LET shown == SelectSeq(frame.html, LAMBDA h : h.text > 0)
        IN  /\ Len(result.headings_structure) = Len(shown)
            /\ \A i \in DOMAIN shown :
                  /\ result.headings_structure[i].level = shown[i].level
                  /\ result.headings_structure[i].position = i - 1

\* the kinds of hierarchy issue the claim names, told by their wording
IsSignificant(issue) ==
    \/ issue = <<"Aucun", "titre", "trouvé">>
    \/ issue = <<"Aucun", "titre", "H1", "trouvé">>
    \/ issue[1] = "Plusieurs"
    \/ issue[1] = "Saut"

InIssues(issue) ==
    \E k \in DOMAIN result.issues :
        \/ result.issues[k] = issue
        \/ result.issues[k] = <<"Structure", "des", "titres", ":">> \o issue

\* C16: a hierarchy issue is also put in the page's general issue list
\* exactly when it is a missing-H1, multiple-H1, level-skip or no-headings
\* issue; first-heading-not-H1 and too-long issues stay hierarchy-local.
C16_SignificantPromoted ==
    pc = "analyze_heading_structure_done" =>
        \A k \in DOMAIN result.headings_hierarchy_issues :
            LET issue == result.headings_hierarchy_issues[k]
            IN  InIssues(issue) <=> IsSignificant(issue)

\* C17: a sitemap fetched because a sitemap index referenced it is never
\* itself expanded as an index: sitemap fetches nest at most one level below
\* the three top-level locations, whatever the sitemaps reference.
C17_OneLevelOnly ==
    pc \in {"discover_from_sitemap", "discover_from_sitemap_done"} =>
        frame.max_depth <= 1

\* robots.txt forbids the URL to the configured user-agent
RobotsDisallow(u) == robots_parser.loaded /\ u.path \in robots_parser.disallow

\* C20: _add_url_to_queue(url) leaves discovered_urls and url_queue as they
\* are when url is already discovered, lacks a scheme or a host, or is
\* disallowed by robots.txt; otherwise it adds url to discovered_urls and
\* appends it to url_queue; crawled_urls never changes.
C20_AddUrlFrame ==
    [][frame'.op = "_add_url_to_queue" =>
          LET u == frame'.url
          IN  /\ crawled_urls' = crawled_urls
              /\ IF \/ u \in discovered_urls
                    \/ u.scheme = ""
                    \/ u.host = ""
                    \/ RobotsDisallow(u)
                 THEN /\ discovered_urls' = discovered_urls
                      /\ url_queue' = url_queue
                 ELSE /\ discovered_urls' = discovered_urls \cup {u}
                      /\ url_queue' = Append(url_queue, u)]_vars

\* a URL that robots.txt disallows was offered to a crawler that has already
\* crawled one page and has another waiting: nothing was added
C20_Witness ==
    /\ frame.op = "_add_url_to_queue"
    /\ RobotsDisallow(frame.url)
    /\ is_valid_url(frame.url)
    /\ frame.url \notin discovered_urls
    /\ crawled_urls # {}
    /\ url_queue # <<>>

\* the stage of a URL: 0 Undiscovered, 1 Queued, 2 Fetching, 3 Done
UrlStage(u, disc, q, done) ==
    IF u \in done THEN 3
    ELSE IF u \in SeqToSet(q) THEN 1
    ELSE IF u \in disc THEN 2
    ELSE 0

\* the URLs admitted to the frontier, in the order they were enqueued: those
\* yielded, the one popped and not yet yielded, those still waiting
Admitted(y, u, q) ==
    y \o (IF u # EmptyUrl /\ u \notin SeqToSet(y) THEN <<u>> ELSE <<>>) \o q

\* C21: with max_pages >= 1, in every state of the crawler discovered_urls
\* holds at most max_pages URLs and only grows, crawled_urls is a subset of
\* it, url_queue holds no URL twice and no crawled URL; each URL moves only
\* forward through Undiscovered, Queued, Fetching, Done, is yielded at most
\* once, and the URLs are yielded in the order they were enqueued.
C21_CrawlerInvariants ==
    /\ [](config.max_pages >= 1 =>
            /\ Cardinality(discovered_urls) <= config.max_pages
            /\ crawled_urls \subseteq discovered_urls
            /\ NoRepeat(url_queue)
            /\ SeqToSet(url_queue) \cap crawled_urls = {}
            /\ SeqToSet(url_queue) \subseteq discovered_urls
            /\ NoRepeat(yielded)
            /\ NoRepeat(Admitted(yielded, url, url_queue)))
    /\ [][config.max_pages >= 1 =>
            /\ discovered_urls \subseteq discovered_urls'
            /\ \A u \in discovered_urls' :
                  LET before == UrlStage(u, discovered_urls, url_queue, crawled_urls)
                      after == UrlStage(u, discovered_urls', url_queue', crawled_urls')
                  IN  before <= after /\ after <= before + 1
            /\ IsPrefix(Admitted(yielded, url, url_queue),
                        Admitted(yielded', url', url_queue'))
            /\ yielded' # yielded => yielded' = Append(yielded, url)]_vars

\* two URLs were enqueued, yielded in that order and crawled
C21_Witness ==
    /\ config.max_pages >= 2
    /\ Len(yielded) = 2
    /\ Cardinality(discovered_urls) = 2
    /\ crawled_urls = {yielded[1]}
    /\ url_queue = <<>>

\* a sleep or a request is in flight that does not return within the time
\* the model covers
Stalled == pc \in ({"rate_limit"} \cup RequestPcs) /\ ~ENABLED Progress

\* C22: with max_pages >= 1, provided every sleep and fetch returns, the
\* crawl loop that started eventually ends and run_audit returns; the loop
\* ends on get_next_url returning nothing, on the page budget being reached
\* by results, or on an exception caught by run_audit.
C22_Terminates ==
    (pc = "initialize" /\ config.max_pages >= 1) ~> (pc = "returned" \/ Stalled)

\* the run returned after crawling two pages, the loop left at the budget
C22_Witness ==
    /\ pc = "returned"
    /\ config.max_pages = 2
    /\ Len(returned) = 2
    /\ abort_kind = "none"

\* C22 as stated: the loop only ends by get_next_url returning nothing
C22_EndsByGetNextUrl ==
    [][(pc' = "after_loop" /\ abort_kind' = "none" /\ config.max_pages >= 1)
          => pc = "get_next"]_vars

\* C23: for any redirect map, an endless chain of distinct URLs included,
\* analyze_redirects ends after at most 10 requests with a chain of at most
\* 10 URLs; when following stops because Location is missing, a request
\* after the first fails, or the cap of 10 is reached, the issue list
\* returned is not empty.
C23_RedirectCap ==
    /\ [](/\ page_fetches <= 10
          /\ Len(redirect_chain) <= 10
          /\ pc = "append" =>
                LET chain == result.redirect_chain
                    resp == frame.redirect_map[chain[Len(chain)]]
                IN  /\ Len(chain) <= 10
                    /\ (/\ chain # <<>>
                        /\ \/ resp.code \in RedirectCodes /\ resp.location = EmptyUrl
                           \/ resp.code = 0 /\ Len(chain) > 1
                           \/ resp.code \in RedirectCodes /\ Len(chain) = 10)
                       => result.issues # <<>>)
    /\ <>(pc = "append")

\* a chain of more than ten distinct URLs was cut at the tenth
C23_Witness ==
    /\ pc = "append"
    /\ Len(result.redirect_chain) = 10
    /\ page_fetches = 10
    /\ frame.redirect_map[Hop(10)].location = Hop(11)
    /\ result.issues = <<"Chaîne de redirection longue">>

\* C24: with follow_redirects enabled, every PageResult in results has a
\* non-empty redirect_chain whose first element is the record's own URL,
\* whatever the outcome of the redirect requests.
C24_ChainStartsAtUrl ==
    config.follow_redirects =>
        \A i \in DOMAIN results :
            /\ results[i].redirect_chain # <<>>
            /\ results[i].redirect_chain[1] = results[i].url

\* C25: whenever run_audit returns, summary.total_pages equals len(results).
C25_SummaryCountsResults ==
    pc = "returned" => summary.total_pages = Len(results)

\* C26: the query operations (find_orphaned_pages, get_page_authority_metrics,
\* find_link_depth) leave link_graph, reverse_link_graph and all_urls
\* unchanged, key sets included.
C26_QueriesReadOnly ==
    [][frame'.op # "add_page_links" =>
          /\ link_graph' = link_graph
          /\ reverse_link_graph' = reverse_link_graph
          /\ all_urls' = all_urls]_vars

\* C27: every URL yielded by crawl_urls, and so every URL with a PageResult,
\* has a scheme and a host, belongs to the configured domain and is allowed
\* by the robots.txt that was loaded, whichever way it was discovered.
C27_YieldedUrlsAdmissible ==
    /\ \A i \in DOMAIN yielded :
          /\ yielded[i].scheme # "" /\ yielded[i].host # ""
          /\ yielded[i].host = config.domain.host
          /\ ~RobotsDisallow(yielded[i])
    /\ \A i \in DOMAIN results : results[i].url \in SeqToSet(yielded)

\* robots.txt disallows /b, which the sitemap lists; a page found through the
\* sitemap and one found through page links were yielded, /b was not
C27_Witness ==
    /\ RobotsDisallow(P("/b"))
    /\ yielded = <<P("/a"), P("/c")>>
    /\ Len(results) = 2
    /\ P("/b") \notin discovered_urls

\* C28: when the crawl loop starts, the queue holds the admissible sitemap
\* URLs, or, when there is none, the homepage: with a valid homepage that
\* robots.txt allows, the queue is not empty before the first URL is taken.
C28_HomepageFallback ==
    (/\ pc = "get_next"
     /\ processed_count = 0
     /\ config.max_pages >= 1
     /\ is_valid_url(normalize_url(config.domain))
     /\ ~RobotsDisallow(normalize_url(config.domain)))
    => url_queue # <<>>

\* C29: when run_audit returns without an exception, crawled_urls is the
\* set of the URLs that have a PageResult in results.
C29_CrawledAreResults ==
    (pc = "returned" /\ abort_kind = "none")
    => crawled_urls = {results[i].url : i \in DOMAIN results}

\* C30: whatever the interleaving of start-analysis requests, run_analysis
\* threads and analysis-status requests, the status returned for an
\* analysis_id is one that was saved for that same analysis (running, later
\* completed or error), never that of another analysis.
C30_StatusOfSameAnalysis ==
    response.asked # None =>
        /\ response.status.analysis_id = response.asked
        /\ response.status.serial = response.asked_serial
        /\ <<response.asked_serial, response.status.status>> \in frame.saved
====
